---- MODULE Spec2Model ----
(***************************************************************************)
(* Model of the normalisation / writer core of flair/datasets/biomedical.py *)
(*   Entity, InternalBioNerDataset, filter_nested_entities,                 *)
(*   whitespace_tokenize, the sentence splitters, CoNLLWriter.write_to_conll*)
(*                                                                          *)
(* Texts are sequences of one-character strings.  Python lists are          *)
(* sequences; Python indices are 0-based and are kept 0-based in the        *)
(* operators that take an index (Row, CharAt), which add 1 when they reach  *)
(* into a TLA+ sequence.  An Entity carries a field oid, its object         *)
(* identity: two Entity objects with equal span and type are different      *)
(* objects, and the resolver moves references around.                       *)
(***************************************************************************)
EXTENDS Integers, Sequences, FiniteSets, TLC

\* ------------------------------------------------------------------ bounds
MaxPos == 4        \* largest end offset of an entity in the resolver runs
MaxEnts == 3       \* longest entity list of a document in the resolver runs
MaxText == 3       \* longest document text in the writer and two-document runs
MaxTags == 2       \* longest entity list of a document in those runs
MaxMerge == 1      \* longest document text in the merge runs
MaxMergeEnts == 1  \* longest entity list of a document in the merge runs

Types == {"X", "Y"}

VARIABLE keys      \* the dataset's document ids, in dict order
DocIds == keys
DocSet == {DocIds[n] : n \in 1..Len(DocIds)}

\* ------------------------------------------------------------------ Entity
None == [start |-> -1, end |-> -1, type |-> "None", oid |-> 0]

\* Entity.__init__: char_span = range(start, end), type; the assert is the
\* guard of every set the model builds entities from.
Entity(start, end, entity_type, oid) ==
    [start |-> start, end |-> end, type |-> entity_type, oid |-> oid]

\* the span taken as a closed interval
SpanLenInclusive(e) == e.end - e.start + 1

\* what a failed assert leaves in place of an object
AssertionError == [start |-> 0, end |-> 0, type |-> "AssertionError", oid |-> 0]

\* the constructor without its assert
NewEntityNoAssert(start, end, entity_type, oid) ==
    Entity(start, end, entity_type, oid)

\* Entity((start, end), entity_type) as a call: the assert of line 36 first
NewEntity(start, end, entity_type, oid) ==
    IF start < end THEN Entity(start, end, entity_type, oid) ELSE AssertionError

\* len(entity.char_span)
SpanLen(e) == IF e.end > e.start THEN e.end - e.start ELSE 0

\* Entity.overlaps
overlaps(a, b) ==
    \/ (a.start <= b.start /\ b.start < a.end)
    \/ (a.start < b.end /\ b.end <= a.end)

\* the [start,end) intervals intersect
Intersect(a, b) ==
    (IF a.start > b.start THEN a.start ELSE b.start)
        < (IF a.end < b.end THEN a.end ELSE b.end)

Value(e) == <<e.start, e.end, e.type>>

\* ------------------------------------------------------ sequence utilities
\* the sort keys of the two sorted() calls
\* the entities compared by their start
StopKeyLeqByStart(a, b) == a.start <= b.start

\* key=lambda x: x.char_span.stop, line 138
StopKeyLeq(a, b) == a.end <= b.end
StartStopKeyLeq(a, b) ==
    a.start < b.start \/ (a.start = b.start /\ a.end <= b.end)

KeyLeq(key, a, b) ==
    IF key = "stop" THEN StopKeyLeq(a, b) ELSE StartStopKeyLeq(a, b)

RECURSIVE InsertBy(_, _, _)
\* insert x after every element whose key is <= key(x): a stable insertion
InsertBy(sq, x, key) ==
    IF sq = <<>> THEN <<x>>
    ELSE IF KeyLeq(key, Head(sq), x)
    THEN <<Head(sq)>> \o InsertBy(Tail(sq), x, key)
    ELSE <<x>> \o sq

RECURSIVE StableSort(_, _)
\* sorted(list, key=...): stable, ascending
StableSort(sq, key) ==
    IF sq = <<>> THEN <<>>
    ELSE InsertBy(StableSort(SubSeq(sq, 1, Len(sq) - 1), key), sq[Len(sq)], key)

RECURSIVE SumLens(_)
SumLens(f) ==
    IF DOMAIN f = {} THEN 0
    ELSE LET x == CHOOSE y \in DOMAIN f : TRUE
         IN Len(f[x]) + SumLens([z \in (DOMAIN f) \ {x} |-> f[z]])

\* ------------------------------------------------- filter_nested_entities
\* dp_array[i] with Python's index rules (negative indices count from the end)
Row(dp, i) == IF i >= 0 THEN dp[i + 1] ELSE dp[Len(dp) + i + 1]

DpInit == << [position_end |-> 0, count |-> 0, total_length |-> 0,
              last_entity |-> None] >>

RECURSIVE BackSearch(_, _, _)
\* i = len(dp_array) - 1; while dp_array[i][0] > start: i -= 1
BackSearch(dp, i, start) ==
    IF i > -Len(dp) - 1 /\ Row(dp, i).position_end > start
    THEN BackSearch(dp, i - 1, start)
    ELSE i

\* the secondary key dropped: a row is appended only when the count grows
DpStepCountOnly(dp, entity) ==
    LET i == BackSearch(dp, Len(dp) - 1, entity.start)
        last == dp[Len(dp)]
    IN IF Row(dp, i).count + 1 > last.count
       THEN Append(dp, [position_end |-> entity.end,
                        count |-> Row(dp, i).count + 1,
                        total_length |-> Row(dp, i).total_length + SpanLen(entity),
                        last_entity |-> entity])
       ELSE Append(dp, last)

\* one pass of the loop over the entities sorted by end
DpStep(dp, entity) ==
    LET i == BackSearch(dp, Len(dp) - 1, entity.start)
        last == dp[Len(dp)]
    IN IF \/ Row(dp, i).count + 1 > last.count
          \/ /\ Row(dp, i).count + 1 = last.count
             /\ Row(dp, i).total_length + SpanLen(entity) > last.total_length
       THEN Append(dp, [position_end |-> entity.end,
                        count |-> Row(dp, i).count + 1,
                        total_length |-> Row(dp, i).total_length + SpanLen(entity),
                        last_entity |-> entity])
       ELSE Append(dp, last)

RECURSIVE DpTable(_, _)
DpTable(dp, sorted) ==
    IF sorted = <<>> THEN dp ELSE DpTable(DpStep(dp, Head(sorted)), Tail(sorted))

\* a row is taken only when it ends strictly before p
WalkStepStrict(w, dp) ==
    LET dp_entry == dp[w.jj]
    IN IF dp_entry.last_entity = None
       THEN [w EXCEPT !.jj = 0]
       ELSE IF dp_entry.position_end < w.p
       THEN [jj |-> w.jj - 1,
             set |-> Append(w.set, dp_entry.last_entity),
             p |-> w.p - SpanLen(dp_entry.last_entity)]
       ELSE [w EXCEPT !.jj = w.jj - 1]

\* one pass of the backward walk over dp_array[::-1]; jj is the 1-based
\* position of dp_entry in dp_array, 0 once the loop has ended
WalkStep(w, dp) ==
    LET dp_entry == dp[w.jj]
    IN IF dp_entry.last_entity = None
       THEN [w EXCEPT !.jj = 0]
       ELSE IF dp_entry.position_end <= w.p
       THEN [jj |-> w.jj - 1,
             set |-> Append(w.set, dp_entry.last_entity),
             p |-> w.p - SpanLen(dp_entry.last_entity)]
       ELSE [w EXCEPT !.jj = w.jj - 1]

\* the walk started one row too low: the last row is never looked at
WalkInitSkipLast(dp) ==
    [jj |-> Len(dp) - 1, set |-> <<>>, p |-> dp[Len(dp)].position_end]

WalkInit(dp) == [jj |-> Len(dp), set |-> <<>>, p |-> dp[Len(dp)].position_end]

RECURSIVE Walk(_, _)
Walk(w, dp) == IF w.jj = 0 THEN w.set ELSE Walk(WalkStep(w, dp), dp)

\* the list the function stores for one document
IndependentSet(ents) ==
    LET dp == DpTable(DpInit, StableSort(ents, "stop"))
    IN Walk(WalkInit(dp), dp)

\* the warning reports the number of entities left
RemovedWarningKept(num_entities_before, num_entities_after) ==
    IF num_entities_before # num_entities_after
    THEN <<num_entities_after>> ELSE <<>>

\* lines 168-173: the warnings issued at the end of the call, each by the
\* number it reports
RemovedWarning(num_entities_before, num_entities_after) ==
    IF num_entities_before # num_entities_after
    THEN <<num_entities_before - num_entities_after>> ELSE <<>>

\* the whole call on a dataset: new entity mapping and the warnings issued
FilterNestedEntities(epd) ==
    LET after == [id \in DOMAIN epd |-> IndependentSet(epd[id])]
    IN [entities_per_document |-> after,
        warnings |-> RemovedWarning(SumLens(epd), SumLens(after))]

\* ------------------------------------------------------------ text, Python
\* str.isspace() on the characters the model's texts are made of
IsSpace(c) == c \in {" ", "\n", "\t", "\r"}

RECURSIVE LStrip(_)
LStrip(text) ==
    IF text # <<>> /\ IsSpace(Head(text)) THEN LStrip(Tail(text)) ELSE text

RECURSIVE RStrip(_)
RStrip(text) ==
    IF text # <<>> /\ IsSpace(text[Len(text)])
    THEN RStrip(SubSeq(text, 1, Len(text) - 1)) ELSE text

\* str.strip()
Strip(text) == RStrip(LStrip(text))

RECURSIVE SplitWs(_, _, _)
\* str.split(): the maximal runs of non-whitespace characters
SplitWs(text, cur, acc) ==
    IF text = <<>> THEN (IF cur = <<>> THEN acc ELSE Append(acc, cur))
    ELSE IF IsSpace(Head(text))
    THEN SplitWs(Tail(text), <<>>, IF cur = <<>> THEN acc ELSE Append(acc, cur))
    ELSE SplitWs(Tail(text), Append(cur, Head(text)), acc)

RECURSIVE SplitAt(_, _, _, _)
\* str.split(sep) for a one-character separator: empty pieces are kept
SplitAt(text, sep, cur, acc) ==
    IF text = <<>> THEN Append(acc, cur)
    ELSE IF Head(text) = sep
    THEN SplitAt(Tail(text), sep, <<>>, Append(acc, cur))
    ELSE SplitAt(Tail(text), sep, Append(cur, Head(text)), acc)

RECURSIVE RunningOffsets(_, _, _)
\* offsets.append(offset); offset += len(piece) + gap
RunningOffsets(pieces, offset, gap) ==
    IF pieces = <<>> THEN <<>>
    ELSE <<offset>> \o RunningOffsets(Tail(pieces), offset + Len(Head(pieces)) + gap, gap)

\* whitespace_tokenize with offset += len(token): the separator not counted
whitespace_tokenize_no_gap(text) ==
    LET toks == SplitWs(text, <<>>, <<>>)
    IN [tokens |-> toks, offsets |-> RunningOffsets(toks, 0, 0)]

\* whitespace_tokenize
whitespace_tokenize(text) ==
    LET toks == SplitWs(text, <<>>, <<>>)
    IN [tokens |-> toks, offsets |-> RunningOffsets(toks, 0, 1)]

\* sentence_split_at_newline
sentence_split_at_newline(text) ==
    LET sents == SplitAt(text, "\n", <<>>, <<>>)
    IN [sentences |-> sents, offsets |-> RunningOffsets(sents, 0, 1)]

\* sentence_split_one_sentence_per_doc
sentence_split_one_sentence_per_doc(text) ==
    [sentences |-> <<text>>, offsets |-> <<0>>]

\* self.sentence_splitter(document_text)
SentenceSplitter(splitter, text) ==
    IF splitter = "sentence_split_at_newline"
    THEN sentence_split_at_newline(text)
    ELSE sentence_split_one_sentence_per_doc(text)

\* A tokenizer passed in by the caller (segtok, scispacy): its tokens are
\* pieces of the sentence at their true offsets, a piece never mixes
\* whitespace with other characters, and runs of whitespace come out as
\* tokens of their own.  Cuts are the positions n such that a token ends
\* with character n.
ForcedCuts(text) ==
    {n \in 1..(Len(text) - 1) : IsSpace(text[n]) # IsSpace(text[n + 1])}

RECURSIVE PiecesFrom(_, _, _)
PiecesFrom(text, cuts, from) ==
    IF from > Len(text) THEN [tokens |-> <<>>, offsets |-> <<>>]
    ELSE LET to == IF \E n \in cuts : n >= from
                   THEN CHOOSE n \in cuts : n >= from /\ \A m \in cuts : m >= from => n <= m
                   ELSE Len(text)
             rest == PiecesFrom(text, cuts, to + 1)
         IN [tokens |-> <<SubSeq(text, from, to)>> \o rest.tokens,
             offsets |-> <<from - 1>> \o rest.offsets]

CallableTokenizerOutputs(text) ==
    {PiecesFrom(text, ForcedCuts(text) \cup S, 1) :
        S \in SUBSET ((1..(Len(text) - 1)) \ ForcedCuts(text))}

\* self.tokenizer(sentence): the results the call may give
TokenizerOutputs(tok, text) ==
    IF tok = "whitespace_tokenize" THEN {whitespace_tokenize(text)}
    ELSE CallableTokenizerOutputs(text)

RECURSIVE FixText(_)
\* ftfy.fix_text on the characters the model's texts are made of (ASCII
\* letters, punctuation, blanks, line breaks): "\r\n" and "\r" become "\n",
\* every other character is kept
FixText(text) ==
    IF text = <<>> THEN <<>>
    ELSE IF Head(text) = "\r"
    THEN IF Len(text) > 1 /\ text[2] = "\n"
         THEN <<"\n">> \o FixText(Tail(Tail(text)))
         ELSE <<"\n">> \o FixText(Tail(text))
    ELSE <<Head(text)>> \o FixText(Tail(text))

\* ----------------------------------------------- CoNLLWriter.write_to_conll
\* text[n] with Python's index rules; "IndexError" when out of range
CharAt(text, n) ==
    IF n >= 0 /\ n < Len(text) THEN text[n + 1]
    ELSE IF n < 0 /\ -n <= Len(text) THEN text[Len(text) + n + 1]
    ELSE "IndexError"

\* offset in entity.char_span
InSpan(offset, e) == e.start <= offset /\ offset < e.end

RECURSIVE AdvanceStrict(_, _, _, _)
\* lines 360-366 with > in place of >=: an entity that ends exactly at the
\* token's offset stays current
AdvanceStrict(cur, deque, offset, n) ==
    IF cur # None /\ offset > cur.end
    THEN IF deque # <<>> THEN AdvanceStrict(Head(deque), Tail(deque), offset, n + 1)
         ELSE [current_entity |-> None, entities |-> <<>>, skipped |-> n + 1]
    ELSE [current_entity |-> cur, entities |-> deque, skipped |-> n]

RECURSIVE Advance(_, _, _, _)
\* lines 360-366: pop entities while the current one ends at or before offset
Advance(cur, deque, offset, n) ==
    IF cur # None /\ offset >= cur.end
    THEN IF deque # <<>> THEN Advance(Head(deque), Tail(deque), offset, n + 1)
         ELSE [current_entity |-> None, entities |-> <<>>, skipped |-> n + 1]
    ELSE [current_entity |-> cur, entities |-> deque, skipped |-> n]

\* lines 356-357: the flag after the skipping block
FlagAfterSkip(cur, offset, flag) ==
    IF cur # None /\ offset >= cur.end THEN FALSE ELSE flag

\* lines 368-376
TagOf(cur, offset, flag) ==
    IF cur # None /\ InSpan(offset, cur)
    THEN IF ~flag THEN [tag |-> "B-" \o cur.type, in_entity |-> TRUE]
         ELSE [tag |-> "I-" \o cur.type, in_entity |-> TRUE]
    ELSE [tag |-> "O", in_entity |-> FALSE]

\* lines 378-385 without the test against the sentence's end
WhitespaceAfterNoSentenceEnd(text, next_token_offset, sentence_end_offset) ==
    IF CharAt(text, next_token_offset) = "IndexError" THEN "IndexError"
    ELSE IF ~IsSpace(CharAt(text, next_token_offset)) THEN "-" ELSE "+"

\* lines 378-385
WhitespaceAfter(text, next_token_offset, sentence_end_offset) ==
    IF next_token_offset < sentence_end_offset
    THEN IF CharAt(text, next_token_offset) = "IndexError" THEN "IndexError"
         ELSE IF ~IsSpace(CharAt(text, next_token_offset)) THEN "-" ELSE "+"
    ELSE "+"

BlankLine == [token |-> <<>>, tag |-> "", ws |-> ""]

\* the deque holds the list in the order it has in the dataset
SortedQueueAsStored(list) == list

\* lines 339-344: deque(sorted(entities, key=(start, stop)))
SortedQueue(list) == StableSort(list, "start_stop")

\* the flag of the sentence before is carried over
FlagAtSentenceStartKept(flag) == flag

\* line 349: in_entity = False
FlagAtSentenceStart(flag) == FALSE

\* lines 390-391, with a blank line after every sentence
EndOfSentenceAlways(file, had_tokens) == Append(file, BlankLine)

\* lines 390-391: if sentence_had_tokens: f.write("\n")
EndOfSentence(file, had_tokens) ==
    IF had_tokens THEN Append(file, BlankLine) ELSE file

\* line 388: " ".join([token, tag, whitespace_after]) + "\n"
Row3(token, tag, whitespace_after) ==
    [token |-> token, tag |-> tag, ws |-> whitespace_after]

\* -------------------------------------------------------------------- state
VARIABLES
    documents,              \* dataset.documents: id -> text
    entities_per_document,  \* dataset.entities_per_document: id -> [Entity]
    input_entities,         \* the entity mapping the caller passed in
    warnings,               \* the numbers reported through warn()
    pc,                     \* position in the running function
    num_entities_before,
    doc_i,                  \* 1-based position of document_id in the keys
    sorted_entities,        \* what is left of sorted(entities, key=stop)
    dp_array,
    walk,                   \* [jj, set, p]: the backward walk's locals
    tokenizer,              \* self.tokenizer
    sentence_splitter,      \* self.sentence_splitter
    f,                      \* the lines written to output_file
    document_text,
    sentences,
    sentence_offsets,
    entities,               \* the deque of the document's sorted entities
    current_entity,
    sent_i,                 \* 1-based position in zip(sentences, offsets)
    in_entity,
    sentence_had_tokens,
    tokens,
    token_offsets,
    tok_i,                  \* 1-based position in zip(tokens, token_offsets)
    log,                    \* one record per token the loop body has handled
    tokenized,              \* the token lists the tokenizer returned, in call order
    fs,                     \* the file names that exist in the output directory
    objects,                \* the Entity objects constructed so far
    call,                   \* the last call of a function of Entity: arguments, result
    type_map,               \* entity_type_to_canonical
    mapped,                 \* entities_per_document of the dataset filter_and_map_entities returns
    data_sets,              \* merge_datasets' argument: the datasets, in iteration order
    input_data_sets,        \* the datasets as the caller of merge_datasets built them
    merged,                 \* the dataset merge_datasets returns
    datasets,               \* process_dataset's argument: split name -> dataset
    output_file,            \* write_to_conll's argument: the file's name
    events,                 \* the calls and file openings of a build, in order
    internal_dataset,       \* what to_internal returned
    fs_before               \* the file names that existed when the build was asked for

fneVars == <<num_entities_before, sorted_entities, dp_array, walk>>
writerVars == <<tokenizer, sentence_splitter, f, document_text, sentences,
                sentence_offsets, entities, current_entity, sent_i, in_entity,
                sentence_had_tokens, tokens, token_offsets, tok_i, log,
                tokenized>>

libVars == <<objects, call, type_map, mapped>>
runVars == <<data_sets, input_data_sets, merged, datasets, output_file, events,
             internal_dataset, fs_before>>

vars == <<keys, documents, entities_per_document, input_entities, warnings, pc,
          doc_i, fneVars, writerVars, fs, libVars, runVars>>

\* ---------------------------------------------------------- resolver runs
EntityValues(Positions, types) ==
    {Entity(s, e, ty, 0) : s \in Positions, e \in Positions, ty \in types}

SpanOK(e) == e.start >= 0 /\ e.start < e.end

\* lists of at most n constructible entities; the i-th object has oid i
EntityListsOf(Positions, types, n) ==
    LET Ents == {e \in EntityValues(Positions, types) : SpanOK(e)}
    IN UNION { { [i \in 1..m |-> [l[i] EXCEPT !.oid = i]] : l \in [1..m -> Ents] }
               : m \in 0..n }

EntityLists(Positions, n) == EntityListsOf(Positions, Types, n)

TextOfLength(n) == [i \in 1..n |-> "a"]

NoCall ==
    [op |-> "none", args |-> <<0, 0>>, entity_type |-> "", result |-> "none",
     before |-> 0]

\* nothing constructed, called or mapped yet
LibInit ==
    /\ objects = <<>>
    /\ call = NoCall
    /\ type_map = <<>>
    /\ mapped = <<>>

\* output_file, as process_dataset names it
OutputFile == "train.conll"

\* a dataset with no document
NoDataset == [documents |-> <<>>, entities_per_document |-> <<>>]

RunInit ==
    /\ data_sets = <<>>
    /\ input_data_sets = <<>>
    /\ merged = NoDataset
    /\ datasets = <<>>
    /\ output_file = OutputFile
    /\ events = <<>>
    /\ internal_dataset = NoDataset
    /\ fs_before = {}

WriterLocalsInit ==
    /\ fs = {}
    /\ LibInit
    /\ RunInit
    /\ f = <<>>
    /\ document_text = <<>>
    /\ sentences = <<>>
    /\ sentence_offsets = <<>>
    /\ entities = <<>>
    /\ current_entity = None
    /\ sent_i = 0
    /\ in_entity = FALSE
    /\ sentence_had_tokens = FALSE
    /\ tokens = <<>>
    /\ token_offsets = <<>>
    /\ tok_i = 0
    /\ log = <<>>
    /\ tokenized = <<>>

FneLocalsInit ==
    /\ warnings = <<>>
    /\ num_entities_before = 0
    /\ doc_i = 0
    /\ sorted_entities = <<>>
    /\ dp_array = <<>>
    /\ walk = [jj |-> 0, set |-> <<>>, p |-> 0]

InitFilter ==
    /\ keys = <<"d1">>
    /\ tokenizer = "whitespace_tokenize"
    /\ sentence_splitter = "sentence_split_one_sentence_per_doc"
    /\ WriterLocalsInit
    /\ documents = [id \in DocSet |-> TextOfLength(MaxPos)]
    /\ entities_per_document \in [DocSet -> EntityLists(0..MaxPos, MaxEnts)]
    /\ input_entities = entities_per_document
    /\ pc = "fne_call"
    /\ FneLocalsInit

\* line 130
FneEnter ==
    /\ pc = "fne_call"
    /\ num_entities_before' = SumLens(entities_per_document)
    /\ doc_i' = 1
    /\ pc' = "fne_document"
    /\ UNCHANGED <<writerVars, documents, entities_per_document, input_entities, warnings,
                   sorted_entities, dp_array, walk>>
    /\ UNCHANGED <<keys, fs, libVars, runVars>>

\* lines 132-138: next document, or lines 168-173 when there is none left
FneDocument ==
    /\ pc = "fne_document"
    /\ doc_i <= Len(DocIds)
    /\ dp_array' = DpInit
    /\ sorted_entities' = StableSort(entities_per_document[DocIds[doc_i]], "stop")
    /\ pc' = "fne_dp"
    /\ UNCHANGED <<writerVars, documents, entities_per_document, input_entities, warnings,
                   num_entities_before, doc_i, walk>>
    /\ UNCHANGED <<keys, fs, libVars, runVars>>

\* lines 138-155
FneDpStep ==
    /\ pc = "fne_dp"
    /\ sorted_entities # <<>>
    /\ dp_array' = DpStep(dp_array, Head(sorted_entities))
    /\ sorted_entities' = Tail(sorted_entities)
    /\ UNCHANGED <<writerVars, documents, entities_per_document, input_entities, warnings,
                   pc, num_entities_before, doc_i, walk>>
    /\ UNCHANGED <<keys, fs, libVars, runVars>>

\* lines 157-158
FneWalkBegin ==
    /\ pc = "fne_dp"
    /\ sorted_entities = <<>>
    /\ walk' = WalkInit(dp_array)
    /\ pc' = "fne_walk"
    /\ UNCHANGED <<writerVars, documents, entities_per_document, input_entities, warnings,
                   num_entities_before, doc_i, sorted_entities, dp_array>>
    /\ UNCHANGED <<keys, fs, libVars, runVars>>

\* lines 159-164
FneWalkStep ==
    /\ pc = "fne_walk"
    /\ walk.jj > 0
    /\ walk' = WalkStep(walk, dp_array)
    /\ UNCHANGED <<writerVars, documents, entities_per_document, input_entities, warnings,
                   pc, num_entities_before, doc_i, sorted_entities, dp_array>>
    /\ UNCHANGED <<keys, fs, libVars, runVars>>

\* line 166
FneStore ==
    /\ pc = "fne_walk"
    /\ walk.jj = 0
    /\ entities_per_document' =
           [entities_per_document EXCEPT ![DocIds[doc_i]] = walk.set]
    /\ doc_i' = doc_i + 1
    /\ pc' = "fne_document"
    /\ UNCHANGED <<writerVars, documents, input_entities, warnings, num_entities_before,
                   sorted_entities, dp_array, walk>>
    /\ UNCHANGED <<keys, fs, libVars, runVars>>

\* lines 168-173
FneReturn ==
    /\ pc = "fne_document"
    /\ doc_i > Len(DocIds)
    /\ warnings' = warnings \o RemovedWarning(num_entities_before,
                                              SumLens(entities_per_document))
    /\ pc' = "fne_done"
    /\ UNCHANGED <<writerVars, documents, entities_per_document, input_entities,
                   num_entities_before, doc_i, sorted_entities, dp_array, walk>>
    /\ UNCHANGED <<keys, fs, libVars, runVars>>

NextFilter ==
    \/ FneEnter
    \/ FneDocument
    \/ FneDpStep
    \/ FneWalkBegin
    \/ FneWalkStep
    \/ FneStore
    \/ FneReturn

SpecFilter == InitFilter /\ [][NextFilter]_vars

\* ----------------------------------------------------- two documents
InitPair ==
    /\ keys = <<"d1", "d2">>
    /\ tokenizer = "whitespace_tokenize"
    /\ sentence_splitter = "sentence_split_one_sentence_per_doc"
    /\ WriterLocalsInit
    /\ documents = [id \in DocSet |-> TextOfLength(MaxText)]
    /\ entities_per_document \in [DocSet -> EntityListsOf(0..MaxText, {"X"}, MaxTags)]
    /\ input_entities = entities_per_document
    /\ pc = "fne_call"
    /\ FneLocalsInit

SpecPair == InitPair /\ [][NextFilter]_vars

\* ------------------------------------------ one document, one entity type
\* the resolver never reads an entity's type
InitChain ==
    /\ keys = <<"d1">>
    /\ tokenizer = "whitespace_tokenize"
    /\ sentence_splitter = "sentence_split_one_sentence_per_doc"
    /\ WriterLocalsInit
    /\ documents = [id \in DocSet |-> TextOfLength(MaxPos)]
    /\ entities_per_document \in [DocSet -> EntityListsOf(0..MaxPos, {"X"}, MaxEnts)]
    /\ input_entities = entities_per_document
    /\ pc = "fne_call"
    /\ FneLocalsInit

SpecChain == InitChain /\ [][NextFilter]_vars

\* ------------------------------------------- the resolver called twice
\* one document, one entity type, a text one character longer
InitTwice ==
    /\ keys = <<"d1">>
    /\ tokenizer = "whitespace_tokenize"
    /\ sentence_splitter = "sentence_split_one_sentence_per_doc"
    /\ WriterLocalsInit
    /\ documents = [id \in DocSet |-> TextOfLength(MaxPos + 1)]
    /\ entities_per_document \in
           [DocSet -> EntityListsOf(0..(MaxPos + 1), {"X"}, MaxEnts)]
    /\ input_entities = entities_per_document
    /\ pc = "fne_call"
    /\ FneLocalsInit

\* filter_nested_entities(dataset) once more on the dataset it has processed
FneAgain ==
    /\ pc = "fne_done"
    /\ call = NoCall
    /\ call' = [NoCall EXCEPT !.op = "filter_nested_entities",
                              !.before = Len(warnings)]
    /\ input_entities' = entities_per_document
    /\ pc' = "fne_call"
    /\ UNCHANGED <<keys, documents, entities_per_document, warnings, doc_i,
                   fneVars, writerVars, fs, objects, type_map, mapped, runVars>>

NextTwice ==
    \/ NextFilter
    \/ FneAgain

SpecTwice == InitTwice /\ [][NextTwice]_vars

\* ------------------------------------------------- the worked example (C4)
ExamplePositions == {0, 3, 5, 10, 15}
ExampleInput ==
    << Entity(0, 5, "X", 1), Entity(3, 10, "Y", 2), Entity(10, 15, "X", 3) >>

InitExample ==
    /\ keys = <<"d1">>
    /\ tokenizer = "whitespace_tokenize"
    /\ sentence_splitter = "sentence_split_one_sentence_per_doc"
    /\ WriterLocalsInit
    /\ documents = [id \in DocSet |-> TextOfLength(15)]
    /\ entities_per_document \in [DocSet -> EntityLists(ExamplePositions, 3)]
    /\ input_entities = entities_per_document
    /\ pc = "fne_call"
    /\ FneLocalsInit

SpecExample == InitExample /\ [][NextFilter]_vars

\* ------------------------------------------------------ resolver properties
Returned == pc = "fne_done"

Values(list) == {Value(list[i]) : i \in 1..Len(list)}

\* index sets of the input whose entities are pairwise non-overlapping
Independent(list) ==
    {S \in SUBSET (1..Len(list)) :
        \A i \in S, j \in S : i # j => ~Intersect(list[i], list[j])}

RECURSIVE TotalLength(_, _)
TotalLength(list, S) ==
    IF S = {} THEN 0
    ELSE LET i == CHOOSE x \in S : TRUE
         IN SpanLen(list[i]) + TotalLength(list, S \ {i})

RECURSIVE ListLength(_)
ListLength(list) ==
    IF list = <<>> THEN 0 ELSE SpanLen(Head(list)) + ListLength(Tail(list))

MaxCount(list) ==
    CHOOSE n \in 0..Len(list) :
        /\ \E S \in Independent(list) : Cardinality(S) = n
        /\ \A S \in Independent(list) : Cardinality(S) <= n

MaxLength(list) ==
    LET Best == {S \in Independent(list) : Cardinality(S) = MaxCount(list)}
    IN CHOOSE n \in 0..ListLength(list) :
        /\ \E S \in Best : TotalLength(list, S) = n
        /\ \A S \in Best : TotalLength(list, S) <= n

\* C1: the list stored for a document holds no two entities whose half-open
\* spans intersect.
C1_NonOverlap ==
    Returned =>
        \A id \in DocSet :
            LET out == entities_per_document[id]
            IN \A i \in 1..Len(out), j \in 1..Len(out) :
                   i # j => ~Intersect(out[i], out[j])

\* C2: the stored list has as many entities as the largest pairwise
\* non-overlapping subset of the input, and the largest total length among
\* the subsets of that size.
C2_Optimal ==
    Returned =>
        \A id \in DocSet :
            /\ Len(entities_per_document[id]) = MaxCount(input_entities[id])
            /\ ListLength(entities_per_document[id]) = MaxLength(input_entities[id])

\* C3: every stored entity is one of the document's input entities, and no
\* input entity is stored more often than the input holds it.
C3_Subset ==
    Returned =>
        \A id \in DocSet :
            LET out == entities_per_document[id]
                inp == input_entities[id]
            IN /\ \A i \in 1..Len(out) : \E n \in 1..Len(inp) : inp[n] = out[i]
               /\ \A n \in 1..Len(inp) :
                      Cardinality({i \in 1..Len(out) : out[i] = inp[n]}) <= 1

\* C4 as the spec states it: the example input yields {(0,5,X), (10,15,X)}.
C4_Original ==
    (Returned /\ input_entities[DocIds[1]] = ExampleInput) =>
        Values(entities_per_document[DocIds[1]]) = {<<0, 5, "X">>, <<10, 15, "X">>}

\* C4: for the input [(0,5,X), (3,10,Y), (10,15,X)] the stored list is the
\* two entities (3,10,Y) and (10,15,X), each once: (3,10) touches (10,15)
\* without overlapping it, and this pair covers 12 characters, not 10.
C4_Example ==
    (Returned /\ input_entities[DocIds[1]] = ExampleInput) =>
        /\ Values(entities_per_document[DocIds[1]]) = {<<3, 10, "Y">>, <<10, 15, "X">>}
        /\ Len(entities_per_document[DocIds[1]]) = 2

C4_Witness ==
    /\ Returned
    /\ input_entities[DocIds[1]] = ExampleInput
    /\ Len(entities_per_document[DocIds[1]]) = 2

\* ------------------------------------------------------------- writer runs
Alphabet == {"a", " ", "\n"}
Texts(chars, n) == UNION {[1..m -> chars] : m \in 0..n}

Tokenizers == {"whitespace_tokenize", "callable"}
Splitters == {"sentence_split_one_sentence_per_doc", "sentence_split_at_newline"}

\* every entity of a document lies inside the document's text
SpansInText(docs, epd) ==
    \A id \in DocSet : \A n \in 1..Len(epd[id]) : epd[id][n].end <= Len(docs[id])

InitWriter ==
    /\ keys = <<"d1">>
    /\ documents \in [DocSet -> Texts(Alphabet, MaxText)]
    /\ entities_per_document \in [DocSet -> EntityLists(0..MaxText, MaxTags)]
    /\ SpansInText(documents, entities_per_document)
    /\ input_entities = entities_per_document
    /\ tokenizer \in Tokenizers
    /\ sentence_splitter \in Splitters
    /\ pc = "w_call"
    /\ FneLocalsInit
    /\ WriterLocalsInit

\* lines 328-331: makedirs, filter_nested_entities(dataset), open the file
WriteEnter ==
    /\ pc = "w_call"
    /\ LET r == FilterNestedEntities(entities_per_document)
       IN /\ entities_per_document' = r.entities_per_document
          /\ warnings' = warnings \o r.warnings
    /\ f' = <<>>
    /\ fs' = fs \cup {output_file}
    /\ events' = Append(events, [op |-> "open", arg |-> output_file])
    /\ doc_i' = 1
    /\ pc' = "w_document"
    /\ UNCHANGED <<documents, input_entities, fneVars, tokenizer,
                   sentence_splitter, document_text, sentences,
                   sentence_offsets, entities, current_entity, sent_i,
                   in_entity, sentence_had_tokens, tokens, token_offsets,
                   tok_i, log, tokenized>>
    /\ UNCHANGED <<keys, libVars, data_sets, input_data_sets, merged, datasets,
                   output_file, internal_dataset, fs_before>>

\* lines 332-346
WriteDocument ==
    /\ pc = "w_document"
    /\ doc_i <= Len(DocIds)
    /\ LET text == FixText(documents[DocIds[doc_i]])
           split == SentenceSplitter(sentence_splitter, text)
           queue == SortedQueue(entities_per_document[DocIds[doc_i]])
       IN /\ document_text' = text
          /\ sentences' = split.sentences
          /\ sentence_offsets' = split.offsets
          /\ current_entity' = IF queue # <<>> THEN Head(queue) ELSE None
          /\ entities' = IF queue # <<>> THEN Tail(queue) ELSE <<>>
    /\ sent_i' = 1
    /\ pc' = "w_sentence"
    /\ UNCHANGED <<documents, entities_per_document, input_entities, warnings,
                   doc_i, fneVars, tokenizer, sentence_splitter, f, in_entity,
                   sentence_had_tokens, tokens, token_offsets, tok_i, log,
                   tokenized>>
    /\ UNCHANGED <<keys, fs, libVars, runVars>>

\* lines 348-351
WriteSentence ==
    /\ pc = "w_sentence"
    /\ sent_i <= Len(sentences)
    /\ in_entity' = FlagAtSentenceStart(in_entity)
    /\ sentence_had_tokens' = FALSE
    /\ \E r \in TokenizerOutputs(tokenizer, sentences[sent_i]) :
          /\ tokens' = r.tokens
          /\ token_offsets' = r.offsets
          /\ tokenized' = Append(tokenized, r.tokens)
    /\ tok_i' = 1
    /\ pc' = "w_token"
    /\ UNCHANGED <<documents, entities_per_document, input_entities, warnings,
                   doc_i, fneVars, tokenizer, sentence_splitter, f,
                   document_text, sentences, sentence_offsets, entities,
                   current_entity, sent_i, log>>
    /\ UNCHANGED <<keys, fs, libVars, runVars>>

\* lines 352-389: the loop body for one token
WriteToken ==
    /\ pc = "w_token"
    /\ tok_i <= Len(tokens)
    /\ LET token == Strip(tokens[tok_i])
           sentence_offset == sentence_offsets[sent_i]
           offset == sentence_offset + token_offsets[tok_i]
           adv == Advance(current_entity, entities, offset, 0)
           flag == FlagAfterSkip(current_entity, offset, in_entity)
           tg == TagOf(adv.current_entity, offset, flag)
           next_token_offset == offset + Len(token)
           sentence_end_offset == sentence_offset + Len(sentences[sent_i])
           whitespace_after ==
               WhitespaceAfter(document_text, next_token_offset, sentence_end_offset)
       IN /\ current_entity' = adv.current_entity
          /\ entities' = adv.entities
          /\ in_entity' = tg.in_entity
          /\ IF whitespace_after = "IndexError"
             THEN /\ pc' = "w_error"
                  /\ UNCHANGED <<f, sentence_had_tokens, tok_i, log>>
             ELSE /\ pc' = pc
                  /\ tok_i' = tok_i + 1
                  /\ f' = IF Len(token) > 0
                          THEN Append(f, Row3(token, tg.tag, whitespace_after))
                          ELSE f
                  /\ sentence_had_tokens' =
                         IF Len(token) > 0 THEN TRUE ELSE sentence_had_tokens
                  /\ log' = Append(log,
                         [sentence |-> sent_i, token |-> token, offset |-> offset,
                          tag |-> tg.tag, ws |-> whitespace_after,
                          doc |-> doc_i, written |-> Len(token) > 0,
                          skipped |-> adv.skipped, line |-> Len(f'),
                          entity |-> adv.current_entity])
    /\ UNCHANGED <<documents, entities_per_document, input_entities, warnings,
                   doc_i, fneVars, tokenizer, sentence_splitter, document_text,
                   sentences, sentence_offsets, sent_i, tokens, token_offsets,
                   tokenized>>
    /\ UNCHANGED <<keys, fs, libVars, runVars>>

\* lines 390-391
WriteSentenceEnd ==
    /\ pc = "w_token"
    /\ tok_i > Len(tokens)
    /\ f' = EndOfSentence(f, sentence_had_tokens)
    /\ sent_i' = sent_i + 1
    /\ pc' = "w_sentence"
    /\ UNCHANGED <<documents, entities_per_document, input_entities, warnings,
                   doc_i, fneVars, tokenizer, sentence_splitter, document_text,
                   sentences, sentence_offsets, entities, current_entity,
                   in_entity, sentence_had_tokens, tokens, token_offsets,
                   tok_i, log, tokenized>>
    /\ UNCHANGED <<keys, fs, libVars, runVars>>

\* line 348 exhausted: on to the next document
WriteDocumentEnd ==
    /\ pc = "w_sentence"
    /\ sent_i > Len(sentences)
    /\ doc_i' = doc_i + 1
    /\ pc' = "w_document"
    /\ UNCHANGED <<documents, entities_per_document, input_entities, warnings,
                   fneVars, writerVars>>
    /\ UNCHANGED <<keys, fs, libVars, runVars>>

\* line 332 exhausted: the with block closes the file
WriteReturn ==
    /\ pc = "w_document"
    /\ doc_i > Len(DocIds)
    /\ pc' = "w_done"
    /\ UNCHANGED <<documents, entities_per_document, input_entities, warnings,
                   doc_i, fneVars, writerVars>>
    /\ UNCHANGED <<keys, fs, libVars, runVars>>

NextWriter ==
    \/ WriteEnter
    \/ WriteDocument
    \/ WriteSentence
    \/ WriteToken
    \/ WriteSentenceEnd
    \/ WriteDocumentEnd
    \/ WriteReturn

SpecWriter == InitWriter /\ [][NextWriter]_vars

\* ------------------------------------------------------- writer properties
Written == pc = "w_done"

NonOverlapping(list) ==
    \A i \in 1..Len(list), j \in 1..Len(list) :
        i # j => ~Intersect(list[i], list[j])

NonDecreasing(lg) ==
    \A n \in 1..(Len(lg) - 1) : lg[n].offset <= lg[n + 1].offset

\* the entities of a list whose span holds the offset
Holding(list, offset) == {i \in 1..Len(list) : InSpan(offset, list[i])}

\* C5: when the tokens' absolute offsets never decrease and the document's
\* entities are pairwise non-overlapping, a token is tagged B-T or I-T exactly
\* when an entity of type T holds its offset, and O when none does, however
\* many ended entities the token skips.
C5_TagsBySpan ==
    \A n \in 1..Len(log) :
        LET inp == input_entities[DocIds[log[n].doc]]
            hits == Holding(inp, log[n].offset)
        IN (NonOverlapping(inp) /\ NonDecreasing(log)) =>
              /\ \A ty \in Types :
                    (log[n].tag \in {"B-" \o ty, "I-" \o ty})
                        <=> (\E i \in hits : inp[i].type = ty)
              /\ (log[n].tag = "O") <=> (hits = {})

\* a token skipped two ended entities at once, and a token was tagged
C5_Witness ==
    /\ Written
    /\ NonOverlapping(input_entities[DocIds[1]])
    /\ \E n \in 1..Len(log) : log[n].skipped >= 2
    /\ \E n \in 1..Len(log) : log[n].tag # "O"

\* C6: in one sentence, of consecutive tokens whose offsets lie in the span of
\* the same entity of the writer's list the first is tagged B-<type> and each
\* following one I-<type>; a token in another entity than its predecessor is
\* tagged B-<type> of that entity.
C6_Continuation ==
    \A n \in 1..Len(log) :
        LET list == entities_per_document[DocIds[log[n].doc]]
            first == n = 1 \/ log[n - 1].sentence # log[n].sentence
                           \/ log[n - 1].doc # log[n].doc
        IN \A i \in Holding(list, log[n].offset) :
              IF ~first /\ i \in Holding(list, log[n - 1].offset)
              THEN log[n].tag = "I-" \o list[i].type
              ELSE log[n].tag = "B-" \o list[i].type

\* C7: every written row tagged I-T directly follows a written row tagged
\* B-T or I-T; a blank line in between breaks the chain.
C7_WellFormedIOB2 ==
    \A n \in 1..Len(f) : \A ty \in Types :
        f[n].tag = "I-" \o ty =>
            /\ n > 1
            /\ f[n - 1].tag \in {"B-" \o ty, "I-" \o ty}

\* the marker the text calls for after a token at offset o of the sentence
MarkerByText(token, offset, sentence_no) ==
    LET after == offset + Len(token)
        sentence_end == sentence_offsets[sentence_no] + Len(sentences[sentence_no])
    IN IF /\ after < Len(document_text)
          /\ after < sentence_end
          /\ ~IsSpace(document_text[after + 1])
       THEN "-" ELSE "+"

RECURSIVE NonEmpty(_)
NonEmpty(toks) ==
    IF toks = <<>> THEN <<>>
    ELSE IF Strip(Head(toks)) # <<>>
    THEN <<Strip(Head(toks))>> \o NonEmpty(Tail(toks))
    ELSE NonEmpty(Tail(toks))

RECURSIVE ExpectedLines(_)
\* per tokenizer call: its non-empty tokens, then an empty line if there were any
ExpectedLines(calls) ==
    IF calls = <<>> THEN <<>>
    ELSE NonEmpty(Head(calls))
           \o (IF NonEmpty(Head(calls)) # <<>> THEN << <<>> >> ELSE <<>>)
           \o ExpectedLines(Tail(calls))

\* C9: the file holds one row per token that is non-empty after stripping,
\* in sentence order then token order, and one blank line after each sentence
\* with at least one row, none after a sentence without rows.
C9_RowsAndBlankLines ==
    Written =>
        /\ Len(tokenized) = Len(sentences)
        /\ \A k \in 1..Len(sentences) :
              \E r \in TokenizerOutputs(tokenizer, sentences[k]) :
                  r.tokens = tokenized[k]
        /\ [n \in 1..Len(f) |-> f[n].token] = ExpectedLines(tokenized)

\* two sentences, one with rows and one whose tokens are all empty
C9_Witness ==
    /\ Written
    /\ Len(tokenized) >= 2
    /\ \E k \in 1..Len(tokenized) : tokenized[k] # <<>> /\ NonEmpty(tokenized[k]) = <<>>
    /\ \E k \in 1..Len(tokenized) : NonEmpty(tokenized[k]) # <<>>

\* ----------------------------------- writer runs on lists the resolver cuts
NestedTexts ==
    {TextOfLength(MaxPos), [TextOfLength(MaxPos) EXCEPT ![2] = " "]}

InitNested ==
    /\ keys = <<"d1">>
    /\ documents \in [DocSet -> NestedTexts]
    /\ entities_per_document \in [DocSet -> EntityListsOf(0..MaxPos, {"X"}, MaxEnts)]
    /\ SpansInText(documents, entities_per_document)
    /\ input_entities = entities_per_document
    /\ tokenizer \in Tokenizers
    /\ sentence_splitter \in Splitters
    /\ pc = "w_call"
    /\ FneLocalsInit
    /\ WriterLocalsInit

SpecNested == InitNested /\ [][NextWriter]_vars

\* ------------------------------------------------ the worked example (C10)
John == <<"J", "o", "h", "n">>
Has == <<"h", "a", "s">>
Flu == <<"f", "l", "u">>
JohnHasFlu == John \o <<" ">> \o Has \o <<" ">> \o Flu \o <<".">>

JohnTexts ==
    {JohnHasFlu, Has \o <<" ">> \o Flu \o <<".">>,
     Flu \o <<".", "\r", "\n">> \o Has}

JohnEntity == << Entity(9, 12, "Disease", 1) >>

InitJohn ==
    /\ keys = <<"d1">>
    /\ documents \in [DocSet -> JohnTexts]
    /\ entities_per_document \in
           [DocSet -> EntityListsOf({0, 4, 5, 8, 9, 12, 13}, {"Disease"}, 1)]
    /\ SpansInText(documents, entities_per_document)
    /\ input_entities = entities_per_document
    /\ tokenizer \in Tokenizers
    /\ sentence_splitter \in Splitters
    /\ pc = "w_call"
    /\ FneLocalsInit
    /\ WriterLocalsInit

SpecJohn == InitJohn /\ [][NextWriter]_vars

JohnRun ==
    /\ Written
    /\ documents[DocIds[1]] = JohnHasFlu
    /\ input_entities[DocIds[1]] = JohnEntity
    /\ tokenizer = "whitespace_tokenize"
    /\ sentence_splitter = "sentence_split_one_sentence_per_doc"

\* C10 as the spec states it: four rows, 'flu' and '.' apart.
C10_Original ==
    JohnRun =>
        f = << Row3(John, "O", "+"), Row3(Has, "O", "+"),
               Row3(Flu, "B-Disease", "-"), Row3(<<".">>, "O", "+"), BlankLine >>

\* C10: "John has flu." with the entity (9,12,Disease), whitespace_tokenize
\* and one sentence per document gives the rows 'John O +', 'has O +',
\* 'flu. B-Disease +' and one blank line: splitting at whitespace leaves
\* 'flu.' in one piece, and nothing follows it in the sentence.
C10_Example ==
    JohnRun =>
        f = << Row3(John, "O", "+"), Row3(Has, "O", "+"),
               Row3(Flu \o <<".">>, "B-Disease", "+"), BlankLine >>

C10_Witness == JohnRun /\ Len(f) = 4

\* ------------------------------------------ Entity and the collection calls
\* Python's str(bool), the form in which a call's result is recorded
PyBool(b) == IF b THEN "True" ELSE "False"

\* no copy is made: the name new_entity is bound to the input object
CopyEntityAlias(entity, oid) == entity

\* copy(entity), line 115: a new object (identity oid) with the same fields
CopyEntity(entity, oid) == [entity EXCEPT !.oid = oid]

\* the map applied again to its own result
MappedTypeTransitive(entity_type_to_canonical, entity_type) ==
    LET once == entity_type_to_canonical[entity_type]
    IN IF once \in DOMAIN entity_type_to_canonical
       THEN entity_type_to_canonical[once] ELSE once

\* entity_type_to_canonical[entity.type], line 116
MappedType(entity_type_to_canonical, entity_type) ==
    entity_type_to_canonical[entity_type]

\* obj.type = entity_type as every list sees it: the records of a list that
\* stand for the object oid take the new type
SetType(list, oid, entity_type) ==
    [n \in 1..Len(list) |->
        IF list[n].oid = oid THEN [list[n] EXCEPT !.type = entity_type]
        ELSE list[n]]

SetTypeAll(epd, oid, entity_type) ==
    [d \in DOMAIN epd |-> SetType(epd[d], oid, entity_type)]

RECURSIVE MapEntities(_, _, _, _)
\* lines 113-120: the loop over one document's entities, from the n-th on.
\* st holds the input mapping, the mapping built so far, the list being
\* built and the heap of all Entity objects.
MapEntities(st, id, n, entity_type_to_canonical) ==
    IF n > Len(st.epd[id]) THEN st
    ELSE LET entity == st.epd[id][n]
         IN IF entity.type \in DOMAIN entity_type_to_canonical
            THEN LET new_entity == CopyEntity(entity, Len(st.objects) + 1)
                     ty == MappedType(entity_type_to_canonical, entity.type)
                     heap == IF new_entity.oid > Len(st.objects)
                             THEN Append(st.objects, new_entity)
                             ELSE st.objects
                 IN MapEntities(
                        [epd |-> SetTypeAll(st.epd, new_entity.oid, ty),
                         mapped |-> SetTypeAll(st.mapped, new_entity.oid, ty),
                         new_entities |->
                             SetType(Append(st.new_entities, new_entity),
                                     new_entity.oid, ty),
                         objects |-> SetType(heap, new_entity.oid, ty)],
                        id, n + 1, entity_type_to_canonical)
            ELSE MapEntities(st, id, n + 1, entity_type_to_canonical)

RECURSIVE MapDocuments(_, _, _, _)
\* lines 111-121: the loop over the documents, in the order of their keys
MapDocuments(st, ids, k, entity_type_to_canonical) ==
    IF k > Len(ids) THEN st
    ELSE LET done == MapEntities([st EXCEPT !.new_entities = <<>>], ids[k], 1,
                                 entity_type_to_canonical)
         IN MapDocuments(
                [done EXCEPT !.mapped =
                    [d \in (DOMAIN done.mapped) \cup {ids[k]} |->
                        IF d = ids[k] THEN done.new_entities ELSE done.mapped[d]]],
                ids, k + 1, entity_type_to_canonical)

\* filter_and_map_entities(dataset, entity_type_to_canonical): the mapping of
\* the returned dataset, and the input mapping and the heap after the call
filter_and_map_entities(epd, ids, heap, entity_type_to_canonical) ==
    MapDocuments([epd |-> epd, mapped |-> <<>>, new_entities |-> <<>>,
                  objects |-> heap],
                 ids, 1, entity_type_to_canonical)

CanonicalTypes == {"Y", "Z"}
TypeMaps == UNION {[ks -> CanonicalTypes] : ks \in SUBSET Types}

InitLib ==
    /\ keys = <<"d1", "d2">>
    /\ tokenizer = "whitespace_tokenize"
    /\ sentence_splitter = "sentence_split_one_sentence_per_doc"
    /\ WriterLocalsInit
    /\ FneLocalsInit
    /\ documents = [id \in DocSet |-> <<>>]
    /\ entities_per_document = [id \in DocSet |-> <<>>]
    /\ input_entities = entities_per_document
    /\ pc = "lib_load"

\* Entity((start, end), entity_type), appended to a document's list; a failed
\* assert ends the load
EntityInit ==
    /\ pc = "lib_load"
    /\ SumLens(entities_per_document) < MaxTags
    /\ \E start \in 0..MaxText, end \in 0..MaxText, ty \in Types, id \in DocSet :
          LET e == NewEntity(start, end, ty, Len(objects) + 1)
          IN /\ call' = [op |-> "Entity", args |-> <<start, end>>,
                         entity_type |-> ty,
                         result |-> IF e = AssertionError
                                    THEN "AssertionError" ELSE "ok",
                         before |-> Len(objects)]
             /\ IF e = AssertionError
                THEN /\ pc' = "lib_error"
                     /\ UNCHANGED <<objects, entities_per_document, input_entities>>
                ELSE /\ pc' = pc
                     /\ objects' = Append(objects, e)
                     /\ entities_per_document' =
                            [entities_per_document EXCEPT ![id] = Append(@, e)]
                     /\ input_entities' = entities_per_document'
    /\ UNCHANGED <<keys, documents, warnings, doc_i, fneVars, writerVars, fs,
                   type_map, mapped, runVars>>

\* a.overlaps(b) for two existing objects; the call changes no object, and
\* the run is followed no further
EntityOverlaps ==
    /\ pc = "lib_load"
    /\ pc' = "lib_called"
    /\ \E i \in 1..Len(objects), j \in 1..Len(objects) :
          call' = [op |-> "overlaps", args |-> <<i, j>>, entity_type |-> "",
                   result |-> PyBool(overlaps(objects[i], objects[j])),
                   before |-> Len(objects)]
    /\ UNCHANGED <<keys, documents, entities_per_document, input_entities,
                   warnings, doc_i, fneVars, writerVars, fs, objects,
                   type_map, mapped, runVars>>

\* filter_and_map_entities(dataset, entity_type_to_canonical)
FilterAndMapEntities ==
    /\ pc = "lib_load"
    /\ \E entity_type_to_canonical \in TypeMaps :
          LET r == filter_and_map_entities(entities_per_document, keys, objects,
                                           entity_type_to_canonical)
          IN /\ type_map' = entity_type_to_canonical
             /\ mapped' = r.mapped
             /\ entities_per_document' = r.epd
             /\ objects' = r.objects
    /\ call' = [op |-> "filter_and_map_entities", args |-> <<0, 0>>,
                entity_type |-> "", result |-> "ok", before |-> Len(objects)]
    /\ pc' = "lib_mapped"
    /\ UNCHANGED <<keys, documents, input_entities, warnings, doc_i, fneVars,
                   writerVars, fs, runVars>>

NextLib ==
    \/ EntityInit
    \/ EntityOverlaps
    \/ FilterAndMapEntities

SpecLib == InitLib /\ [][NextLib]_vars

\* ------------------------------------------------------- merge_datasets
\* the entries of the dict that is already there are kept
DictUpdateKeepFirst(a, b) ==
    [k \in (DOMAIN a) \cup (DOMAIN b) |-> IF k \in DOMAIN a THEN a[k] ELSE b[k]]

\* dict.update(other): other's entry wins where both have the key
DictUpdate(a, b) ==
    [k \in (DOMAIN a) \cup (DOMAIN b) |-> IF k \in DOMAIN b THEN b[k] ELSE a[k]]

\* InternalBioNerDataset(documents, entities_per_document)
Dataset(docs, epd) == [documents |-> docs, entities_per_document |-> epd]

\* the two accumulators are the dicts of the first dataset, not new ones
MergeBeginInPlace(sets) ==
    [all_documents |-> IF sets = <<>> THEN <<>> ELSE sets[1].documents,
     all_entities |-> IF sets = <<>> THEN <<>> ELSE sets[1].entities_per_document,
     data_sets |-> sets,
     alias |-> IF sets = <<>> THEN 0 ELSE 1]

\* lines 92-93: two new dicts; alias names the dataset whose dicts the
\* accumulators are, 0 for none
MergeBegin(sets) ==
    [all_documents |-> <<>>, all_entities |-> <<>>, data_sets |-> sets, alias |-> 0]

\* lines 96-97: one pass of the loop, for the n-th dataset
MergeStep(st, n) ==
    LET ds == st.data_sets[n]
        docs == DictUpdate(st.all_documents, ds.documents)
        ents == DictUpdate(st.all_entities, ds.entities_per_document)
    IN [all_documents |-> docs,
        all_entities |-> ents,
        data_sets |-> IF st.alias = 0 THEN st.data_sets
                      ELSE [st.data_sets EXCEPT ![st.alias] = Dataset(docs, ents)],
        alias |-> st.alias]

RECURSIVE MergeLoop(_, _)
MergeLoop(st, n) ==
    IF n > Len(st.data_sets) THEN st ELSE MergeLoop(MergeStep(st, n), n + 1)

\* merge_datasets(data_sets): the dataset returned, and the arguments after
\* the call
merge_datasets(sets) ==
    LET st == MergeLoop(MergeBegin(sets), 1)
    IN [merged |-> Dataset(st.all_documents, st.all_entities),
        data_sets |-> st.data_sets]

MergeIds == {"d1", "d2"}
MergeAlphabet == {"a", "b"}

\* the Document Collection invariant of one dataset
CollectionOK(ds) ==
    /\ DOMAIN ds.entities_per_document \subseteq DOMAIN ds.documents
    /\ \A id \in DOMAIN ds.entities_per_document :
          \A n \in 1..Len(ds.entities_per_document[id]) :
              LET e == ds.entities_per_document[id][n]
              IN 0 <= e.start /\ e.start < e.end /\ e.end <= Len(ds.documents[id])

\* the datasets a loader can build: some documents, and entity lists for
\* some of them, inside the texts
MergeDatasets ==
    LET DocMaps == UNION {[ks -> Texts(MergeAlphabet, MaxMerge)] : ks \in SUBSET MergeIds}
        Lists == EntityListsOf(0..MaxMerge, {"X"}, MaxMergeEnts)
    IN {ds \in UNION {{Dataset(docs, epd) :
                          epd \in UNION {[es -> Lists] : es \in SUBSET DOMAIN docs}}
                      : docs \in DocMaps} : CollectionOK(ds)}

InitMerge ==
    /\ keys = <<>>
    /\ tokenizer = "whitespace_tokenize"
    /\ sentence_splitter = "sentence_split_one_sentence_per_doc"
    /\ fs = {}
    /\ LibInit
    /\ f = <<>>
    /\ document_text = <<>>
    /\ sentences = <<>>
    /\ sentence_offsets = <<>>
    /\ entities = <<>>
    /\ current_entity = None
    /\ sent_i = 0
    /\ in_entity = FALSE
    /\ sentence_had_tokens = FALSE
    /\ tokens = <<>>
    /\ token_offsets = <<>>
    /\ tok_i = 0
    /\ log = <<>>
    /\ tokenized = <<>>
    /\ FneLocalsInit
    /\ documents = <<>>
    /\ entities_per_document = <<>>
    /\ input_entities = <<>>
    /\ data_sets \in UNION {[1..n -> MergeDatasets] : n \in 1..2}
    /\ input_data_sets = data_sets
    /\ merged = NoDataset
    /\ datasets = <<>>
    /\ output_file = OutputFile
    /\ events = <<>>
    /\ internal_dataset = NoDataset
    /\ fs_before = {}
    /\ pc = "merge_call"

\* merge_datasets(data_sets)
MergeDatasetsCall ==
    /\ pc = "merge_call"
    /\ LET r == merge_datasets(data_sets)
       IN /\ merged' = r.merged
          /\ data_sets' = r.data_sets
    /\ events' = Append(events, [op |-> "merge_datasets", arg |-> ""])
    /\ pc' = "merge_done"
    /\ UNCHANGED <<keys, documents, entities_per_document, input_entities,
                   warnings, doc_i, fneVars, writerVars, fs, libVars,
                   input_data_sets, datasets, output_file, internal_dataset,
                   fs_before>>

NextMerge == MergeDatasetsCall

SpecMerge == InitMerge /\ [][NextMerge]_vars

\* ------------------------------------------- process_dataset and the build
SplitNames == <<"train", "dev", "test">>
FileOf(split) == split \o ".conll"
AllFiles == {FileOf(SplitNames[n]) : n \in 1..3}

\* line 613: the document ids in sorted order
IdOrder == <<"d1", "d2">>
SortedIds(S) == SelectSeq(IdOrder, LAMBDA k : k \in S)

\* the position after the statement that writes the n-th split
AfterSplit(n, prefix) == IF n = 3 THEN prefix \o "done" ELSE prefix \o SplitNames[n + 1]

\* write_to_conll(dataset, output_file) is entered: a new frame of locals
CallWriter(ds, file) ==
    /\ keys' = SortedIds(DOMAIN ds.documents)
    /\ documents' = ds.documents
    /\ entities_per_document' = ds.entities_per_document
    /\ input_entities' = ds.entities_per_document
    /\ output_file' = file
    /\ pc' = "w_call"
    /\ doc_i' = 0
    /\ f' = <<>>
    /\ document_text' = <<>>
    /\ sentences' = <<>>
    /\ sentence_offsets' = <<>>
    /\ entities' = <<>>
    /\ current_entity' = None
    /\ sent_i' = 0
    /\ in_entity' = FALSE
    /\ sentence_had_tokens' = FALSE
    /\ tokens' = <<>>
    /\ token_offsets' = <<>>
    /\ tok_i' = 0
    /\ log' = <<>>
    /\ tokenized' = <<>>
    /\ UNCHANGED <<warnings, fneVars, tokenizer, sentence_splitter, fs, libVars,
                   data_sets, input_data_sets, merged, fs_before>>

OneDocument == [d \in {"d1"} |-> <<"a">>]

\* the datasets of a split: no document, or one document without or with an
\* entity
SplitDatasets ==
    {NoDataset,
     Dataset(OneDocument, [d \in {"d1"} |-> <<>>]),
     Dataset(OneDocument, [d \in {"d1"} |-> <<Entity(0, 1, "X", 1)>>])}

InitProcess ==
    /\ keys = <<>>
    /\ documents = <<>>
    /\ entities_per_document = <<>>
    /\ input_entities = <<>>
    /\ tokenizer = "whitespace_tokenize"
    /\ sentence_splitter = "sentence_split_one_sentence_per_doc"
    /\ FneLocalsInit
    /\ fs = {}
    /\ LibInit
    /\ f = <<>>
    /\ document_text = <<>>
    /\ sentences = <<>>
    /\ sentence_offsets = <<>>
    /\ entities = <<>>
    /\ current_entity = None
    /\ sent_i = 0
    /\ in_entity = FALSE
    /\ sentence_had_tokens = FALSE
    /\ tokens = <<>>
    /\ token_offsets = <<>>
    /\ tok_i = 0
    /\ log = <<>>
    /\ tokenized = <<>>
    /\ data_sets = <<>>
    /\ input_data_sets = <<>>
    /\ merged = NoDataset
    /\ datasets \in UNION {[ss -> SplitDatasets] :
                              ss \in SUBSET {SplitNames[n] : n \in 1..3}}
    /\ output_file = ""
    /\ events = <<>>
    /\ internal_dataset = NoDataset
    /\ fs_before = {}
    /\ pc = "p_train"

\* lines 323-325: one statement of process_dataset; datasets[split] raises
\* KeyError when the mapping has no such key
ProcessSplit ==
    \E n \in 1..3 :
        /\ pc = "p_" \o SplitNames[n]
        /\ IF SplitNames[n] \in DOMAIN datasets
           THEN /\ CallWriter(datasets[SplitNames[n]], FileOf(SplitNames[n]))
                /\ events' = Append(events, [op |-> "write_to_conll",
                                             arg |-> SplitNames[n]])
                /\ UNCHANGED <<datasets, internal_dataset>>
           ELSE /\ pc' = "p_error"
                /\ events' = Append(events, [op |-> "KeyError", arg |-> SplitNames[n]])
                /\ UNCHANGED <<keys, documents, entities_per_document, input_entities,
                               warnings, doc_i, fneVars, writerVars, fs, libVars,
                               data_sets, input_data_sets, merged, datasets,
                               output_file, internal_dataset, fs_before>>

\* write_to_conll has returned to process_dataset: the dataset object of the
\* mapping is the one the writer worked on
ProcessReturn ==
    /\ pc = "w_done"
    /\ \E n \in 1..3 :
          /\ output_file = FileOf(SplitNames[n])
          /\ pc' = AfterSplit(n, "p_")
          /\ datasets' = [datasets EXCEPT ![SplitNames[n]] =
                              Dataset(documents, entities_per_document)]
    /\ UNCHANGED <<keys, documents, entities_per_document, input_entities,
                   warnings, doc_i, fneVars, writerVars, fs, libVars, data_sets,
                   input_data_sets, merged, output_file, events,
                   internal_dataset, fs_before>>

NextProcess ==
    \/ ProcessSplit
    \/ ProcessReturn
    \/ NextWriter

SpecProcess == InitProcess /\ [][NextProcess]_vars

\* ------------------------------------------------- HunerDataset.__init__
\* the build is run only when none of the three files exists
BuildNeededWhenNoneExists(files) == files \cap AllFiles = {}

\* line 570: not (train_file.exists() and dev_file.exists() and test_file.exists())
BuildNeeded(files) == ~(AllFiles \subseteq files)

\* line 574: tokenizer if tokenizer else build_spacy_tokenizer()
CwTokenizer(tokenizer_arg) ==
    IF tokenizer_arg # "None" THEN tokenizer_arg ELSE "callable"

\* lines 576-582, for a call in which one of the two splitters is given
CwSentenceSplitter(corpus_splitter, splitter_arg) ==
    IF corpus_splitter = "None" THEN splitter_arg ELSE corpus_splitter

\* lines 583-587: the warning about a sentence splitter that is not used
IgnoredSplitterWarning(corpus_splitter, splitter_arg) ==
    IF corpus_splitter # "None" /\ splitter_arg # "None"
    THEN <<[op |-> "warn", arg |-> "Ignoring non-default sentence splitter"]>>
    ELSE <<>>

HunerDocuments ==
    [d \in {"d1", "d2"} |-> IF d = "d1" THEN <<"a">> ELSE <<"a", " ", "a">>]

\* what to_internal can return: two documents, each without or with entities
HunerDatasets ==
    {Dataset(HunerDocuments,
             [d \in {"d1", "d2"} |-> IF d = "d1" THEN l1 ELSE l2]) :
        l1 \in {<<>>, <<Entity(0, 1, "Y", 1)>>},
        l2 \in {<<>>, <<Entity(2, 3, "Y", 1), Entity(0, 1, "X", 2)>>}}

\* lines 615-618: the dataset restricted to the given ids
Subset(ds, ids) ==
    Dataset([k \in ids |-> ds.documents[k]],
            [k \in ids |-> ds.entities_per_document[k]])

InitHuner ==
    /\ keys = <<>>
    /\ documents = <<>>
    /\ entities_per_document = <<>>
    /\ input_entities = <<>>
    /\ tokenizer \in {"None", "whitespace_tokenize"}
    /\ sentence_splitter \in {"None", "sentence_split_one_sentence_per_doc"}
    /\ FneLocalsInit
    /\ fs \in SUBSET AllFiles
    /\ fs_before = fs
    /\ LibInit
    /\ f = <<>>
    /\ document_text = <<>>
    /\ sentences = <<>>
    /\ sentence_offsets = <<>>
    /\ entities = <<>>
    /\ current_entity = None
    /\ sent_i = 0
    /\ in_entity = FALSE
    /\ sentence_had_tokens = FALSE
    /\ tokens = <<>>
    /\ token_offsets = <<>>
    /\ tok_i = 0
    /\ log = <<>>
    /\ tokenized = <<>>
    /\ data_sets = <<>>
    /\ input_data_sets = <<>>
    /\ merged = NoDataset
    /\ datasets = <<>>
    /\ output_file = ""
    /\ events = <<>>
    /\ internal_dataset = NoDataset
    /\ pc = "h_call"

\* lines 566-591: the test for the three files, and when the build is needed
\* the tokenizer, the sentence splitter and the writer
HunerBegin ==
    /\ pc = "h_call"
    /\ IF BuildNeeded(fs)
       THEN \E corpus_splitter \in {"None", "sentence_split_at_newline"} :
               /\ corpus_splitter # "None" \/ sentence_splitter # "None"
               /\ tokenizer' = CwTokenizer(tokenizer)
               /\ sentence_splitter' =
                      CwSentenceSplitter(corpus_splitter, sentence_splitter)
               /\ events' = events \o <<[op |-> "makedirs", arg |-> "splits"]>>
                                   \o IgnoredSplitterWarning(corpus_splitter,
                                                             sentence_splitter)
               /\ pc' = "h_to_internal"
       ELSE /\ pc' = "h_done"
            /\ UNCHANGED <<tokenizer, sentence_splitter, events>>
    /\ UNCHANGED <<keys, documents, entities_per_document, input_entities,
                   warnings, doc_i, fneVars, f, document_text, sentences,
                   sentence_offsets, entities, current_entity, sent_i, in_entity,
                   sentence_had_tokens, tokens, token_offsets, tok_i, log,
                   tokenized, fs, libVars, data_sets, input_data_sets, merged,
                   datasets, output_file, internal_dataset, fs_before>>

\* line 593: internal_dataset = self.to_internal(data_folder)
HunerToInternal ==
    /\ pc = "h_to_internal"
    /\ internal_dataset' \in HunerDatasets
    /\ events' = Append(events, [op |-> "to_internal", arg |-> ""])
    /\ pc' = "h_train"
    /\ UNCHANGED <<keys, documents, entities_per_document, input_entities,
                   warnings, doc_i, fneVars, writerVars, fs, libVars, data_sets,
                   input_data_sets, merged, datasets, output_file, fs_before>>

\* lines 595-602: get_subset for one split, then write_to_conll is entered;
\* the ids are those of the split file that the dataset has
HunerSplit ==
    \E n \in 1..3 :
        /\ pc = "h_" \o SplitNames[n]
        /\ \E ids \in SUBSET DOMAIN internal_dataset.documents :
              CallWriter(Subset(internal_dataset, ids), FileOf(SplitNames[n]))
        /\ events' = Append(events, [op |-> "get_subset", arg |-> SplitNames[n]])
        /\ UNCHANGED <<datasets, internal_dataset>>

\* write_to_conll has returned to __init__
HunerReturn ==
    /\ pc = "w_done"
    /\ \E n \in 1..3 :
          /\ output_file = FileOf(SplitNames[n])
          /\ pc' = AfterSplit(n, "h_")
    /\ UNCHANGED <<keys, documents, entities_per_document, input_entities,
                   warnings, doc_i, fneVars, writerVars, fs, libVars, runVars>>

\* lines 604-606: ColumnCorpus.__init__ reads the three files
HunerSuper ==
    /\ pc = "h_done"
    /\ events' = Append(events, [op |-> "ColumnCorpus.__init__", arg |-> ""])
    /\ pc' = "h_loaded"
    /\ UNCHANGED <<keys, documents, entities_per_document, input_entities,
                   warnings, doc_i, fneVars, writerVars, fs, libVars, data_sets,
                   input_data_sets, merged, datasets, output_file,
                   internal_dataset, fs_before>>

NextHuner ==
    \/ HunerBegin
    \/ HunerToInternal
    \/ HunerSplit
    \/ HunerReturn
    \/ HunerSuper
    \/ NextWriter

SpecHuner == InitHuner /\ [][NextHuner]_vars

\* ------------------------------------------- writer and the caller's data
Oids(list) == {list[i].oid : i \in 1..Len(list)}

SameEntities(a, b) == Len(a) = Len(b) /\ Oids(a) = Oids(b)

InWriter == pc \in {"w_document", "w_sentence", "w_token", "w_done", "w_error"}

C12_VisibleOnlyWhenComplete == OutputFile \in fs => pc = "w_done"

\* ------------------------------------------------- resolver and its warning
\* C13: the call warns exactly when some document's stored list differs in
\* size from its input list; it warns once, and the number reported is the
\* total number of input entities minus the total number stored.
C13_Warning ==
    Returned =>
        /\ (warnings # <<>>) <=>
               (\E id \in DocSet :
                    Len(entities_per_document[id]) # Len(input_entities[id]))
        /\ warnings # <<>> =>
               warnings = << SumLens(input_entities) - SumLens(entities_per_document) >>

\* one document kept its size, the other lost an entity to an overlap
C13_Witness ==
    /\ Returned
    /\ Len(input_entities["d1"]) > 0
    /\ Len(entities_per_document["d1"]) = Len(input_entities["d1"])
    /\ ~NonOverlapping(input_entities["d2"])
    /\ Len(entities_per_document["d2"]) < Len(input_entities["d2"])
    /\ warnings = <<1>>

\* C14: a document whose input entities are pairwise non-overlapping, the
\* empty list included, keeps exactly its entities, each once; when this is
\* so for every document, the call issues no warning.
C14_NonOverlappingKept ==
    Returned =>
        /\ \A id \in DocSet :
              NonOverlapping(input_entities[id]) =>
                  SameEntities(entities_per_document[id], input_entities[id])
        /\ (\A id \in DocSet : NonOverlapping(input_entities[id])) =>
               warnings = <<>>

\* an empty document and one with two separate entities, both as they were
C14_Witness ==
    /\ Returned
    /\ input_entities["d1"] = <<>>
    /\ entities_per_document["d1"] = <<>>
    /\ Len(input_entities["d2"]) = 2
    /\ NonOverlapping(input_entities["d2"])
    /\ SameEntities(entities_per_document["d2"], input_entities["d2"])
    /\ warnings = <<>>

\* a is directly followed by b: a ends where b starts
Touches(a, b) == a.end = b.start

\* every entity of the list touches another one, and no two intersect
TouchingOnly(list) ==
    /\ Len(list) >= 2
    /\ NonOverlapping(list)
    /\ \A i \in 1..Len(list) : \E j \in 1..Len(list) :
          j # i /\ (Touches(list[i], list[j]) \/ Touches(list[j], list[i]))

\* C15: entities that only touch (one ends where the next starts), in pairs
\* and in chains, do not overlap, and all of them are retained.
C15_TouchingKept ==
    \A id \in DocSet :
        (Returned /\ TouchingOnly(input_entities[id])) =>
            SameEntities(entities_per_document[id], input_entities[id])

\* a chain of three touching entities, all three stored
C15_Witness ==
    /\ Returned
    /\ LET inp == input_entities[DocIds[1]]
       IN /\ Len(inp) = 3
          /\ TouchingOnly(inp)
          /\ \E i, j, k \in 1..3 :
                Touches(inp[i], inp[j]) /\ Touches(inp[j], inp[k])
    /\ Len(entities_per_document[DocIds[1]]) = 3

\* ------------------------------------------------------ Entity properties
CallA == objects[call.args[1]]
CallB == objects[call.args[2]]

\* C16: Entity.overlaps is symmetric: a.overlaps(b) = b.overlaps(a) for all
\* entities a and b.
C16_Symmetric ==
    call.op = "overlaps" => call.result = PyBool(overlaps(CallB, CallA))

\* C17: a.overlaps(b) is true exactly when the half-open intervals of a and b
\* intersect, that is when max(a.start, b.start) < min(a.end, b.end).
C17_OverlapsIsIntersect ==
    call.op = "overlaps" => call.result = PyBool(Intersect(CallA, CallB))

AllSpansOK(epd) ==
    \A d \in DOMAIN epd : \A n \in 1..Len(epd[d]) : epd[d][n].start < epd[d][n].end

\* C18: a construction with end <= start fails with an AssertionError and
\* adds no object; every Entity that exists, the relabelled copies of
\* filter_and_map_entities included, has start < end.
C18_SpanInvariant ==
    /\ \A n \in 1..Len(objects) : objects[n].start < objects[n].end
    /\ AllSpansOK(entities_per_document)
    /\ AllSpansOK(mapped)
    /\ call.op = "Entity" =>
          /\ (call.args[2] <= call.args[1]) <=> (call.result = "AssertionError")
          /\ call.result = "AssertionError" => Len(objects) = call.before
          /\ call.result = "ok" => Len(objects) = call.before + 1

\* a construction with end <= start failed beside an object that exists
C18_Witness ==
    /\ pc = "lib_error"
    /\ call.op = "Entity"
    /\ call.args[2] <= call.args[1]
    /\ call.result = "AssertionError"
    /\ Len(objects) >= 1

Mapped == pc = "lib_mapped"

\* the entities of a list whose type is a key of the map, in their order
Kept(list, tm) == SelectSeq(list, LAMBDA e : e.type \in DOMAIN tm)

\* C19: for each document the returned list is the input entities whose type
\* is a key of the map, in their original order, with their spans, each with
\* the type the map gives for its input type (applied once); the others are
\* dropped.
C19_FilterAndMap ==
    Mapped =>
        /\ DOMAIN mapped = DocSet
        /\ \A id \in DocSet :
              LET kept == Kept(input_entities[id], type_map)
              IN /\ Len(mapped[id]) = Len(kept)
                 /\ \A n \in 1..Len(kept) :
                       Value(mapped[id][n]) =
                           <<kept[n].start, kept[n].end, type_map[kept[n].type]>>

\* X goes to Y and Y to Z: a document's X and Y entities came back as Y and Z
C19_Witness ==
    /\ Mapped
    /\ type_map = [ty \in Types |-> IF ty = "X" THEN "Y" ELSE "Z"]
    /\ \E id \in DocSet :
          /\ Len(input_entities[id]) = 2
          /\ input_entities[id][1].type = "X"
          /\ input_entities[id][2].type = "Y"
          /\ Len(mapped[id]) = 2
          /\ mapped[id][1].type = "Y"
          /\ mapped[id][2].type = "Z"

\* C20: after the call every Entity of the input collection has the type and
\* span it had before, every input list holds the same objects in the same
\* order, and the returned entities are other objects.
C20_InputUnchanged ==
    Mapped =>
        /\ entities_per_document = input_entities
        /\ \A n \in 1..call.before : objects[n].oid = n
        /\ \A id \in DocSet : \A n \in 1..Len(mapped[id]) :
              mapped[id][n].oid > call.before

\* an entity was relabelled in the result
C20_Witness ==
    /\ Mapped
    /\ \E id \in DocSet :
          /\ Len(input_entities[id]) >= 1
          /\ Len(mapped[id]) >= 1
          /\ mapped[id][1].type # input_entities[id][1].type

\* ------------------------------------------------------------------ merge
MergeDone == pc = "merge_done"

\* C21: when every dataset passed to merge_datasets satisfies the Document
\* Collection invariant, the merged dataset satisfies it too.
C21_MergeKeepsInvariant ==
    (MergeDone /\ \A n \in 1..Len(input_data_sets) : CollectionOK(input_data_sets[n]))
        => CollectionOK(merged)

\* the last dataset of the sequence that has the key in the given field
LastWith(sets, field, k) ==
    CHOOSE n \in 1..Len(sets) :
        /\ k \in DOMAIN sets[n][field]
        /\ \A m \in (n + 1)..Len(sets) : k \notin DOMAIN sets[m][field]

KeysOf(sets, field) == UNION {DOMAIN sets[n][field] : n \in 1..Len(sets)}

\* C22: the merged dataset's document keys and entity keys are the unions of
\* the inputs' keys; each key carries the text, respectively the entity list,
\* of the last input that has it; the inputs are as they were.
C22_LastWriteWins ==
    MergeDone =>
        /\ DOMAIN merged.documents = KeysOf(input_data_sets, "documents")
        /\ DOMAIN merged.entities_per_document =
               KeysOf(input_data_sets, "entities_per_document")
        /\ \A k \in DOMAIN merged.documents :
              merged.documents[k] =
                  input_data_sets[LastWith(input_data_sets, "documents", k)].documents[k]
        /\ \A k \in DOMAIN merged.entities_per_document :
              merged.entities_per_document[k] =
                  input_data_sets[LastWith(input_data_sets, "entities_per_document", k)]
                      .entities_per_document[k]
        /\ data_sets = input_data_sets

\* both inputs have d1 with different texts and different entity lists, and
\* only the first has d2
C22_Witness ==
    /\ MergeDone
    /\ Len(input_data_sets) = 2
    /\ "d1" \in DOMAIN input_data_sets[1].entities_per_document
    /\ "d1" \in DOMAIN input_data_sets[2].entities_per_document
    /\ input_data_sets[1].documents["d1"] # input_data_sets[2].documents["d1"]
    /\ input_data_sets[1].entities_per_document["d1"]
           # input_data_sets[2].entities_per_document["d1"]
    /\ "d2" \in DOMAIN input_data_sets[1].documents
    /\ "d2" \notin DOMAIN input_data_sets[2].documents
    /\ merged.documents["d1"] = input_data_sets[2].documents["d1"]
    /\ "d2" \in DOMAIN merged.documents

\* ---------------------------------------------------- whitespace_tokenize
\* text[offset : offset + len(token)] with Python's slice rules
Slice(text, from, to) ==
    LET hi == IF to < Len(text) THEN to ELSE Len(text)
    IN IF from >= hi THEN <<>> ELSE SubSeq(text, from + 1, hi)

\* C24: each offset whitespace_tokenize returns is the position at which its
\* token starts in the text: text[offset : offset + len(token)] = token.
C24_OffsetsLocateTokens ==
    (pc = "w_token" /\ tokenizer = "whitespace_tokenize") =>
        \A n \in 1..Len(tokens) :
            Slice(sentences[sent_i], token_offsets[n],
                  token_offsets[n] + Len(tokens[n])) = tokens[n]

\* ---------------------------------------------------------- process_dataset
\* C23: called with a mapping that has 'train' and 'test' but no 'dev',
\* process_dataset raises no error, and when it has ended train.conll and
\* test.conll are written.
C23_DevMayBeAbsent ==
    DOMAIN datasets = {"train", "test"} =>
        /\ pc # "p_error"
        /\ pc = "p_done" => {"train.conll", "test.conll"} \subseteq fs

\* ------------------------------------------------------------- the build
\* the events of a build that the claim is about, in order
BuildEvents ==
    SelectSeq(events, LAMBDA e : e.op \in {"to_internal", "open"})

FullBuild ==
    << [op |-> "to_internal", arg |-> ""],
       [op |-> "open", arg |-> "train.conll"],
       [op |-> "open", arg |-> "dev.conll"],
       [op |-> "open", arg |-> "test.conll"] >>

IsPrefix(a, b) == Len(a) <= Len(b) /\ a = SubSeq(b, 1, Len(a))

\* C30: constructing a HunerDataset calls to_internal and then opens
\* train.conll, dev.conll and test.conll for writing, in that order, exactly
\* when one of the three files is missing; when all three exist, to_internal
\* is not called and no file is opened.
C30_BuildWhenMissing ==
    /\ IsPrefix(BuildEvents, FullBuild)
    /\ AllFiles \subseteq fs_before => (BuildEvents = <<>> /\ fs = fs_before)
    /\ pc \in {"h_done", "h_loaded"} =>
          IF AllFiles \subseteq fs_before
          THEN BuildEvents = <<>>
          ELSE BuildEvents = FullBuild /\ AllFiles \subseteq fs

\* only test.conll was missing: the build ran and opened all three files
C30_Witness ==
    /\ pc = "h_loaded"
    /\ fs_before = {"train.conll", "dev.conll"}
    /\ BuildEvents = FullBuild
    /\ fs = AllFiles

\* ------------------------------------------------------ the resolver's table
\* the document the resolver is working on, or has worked on last
FneDoc == DocIds[IF doc_i > Len(DocIds) THEN Len(DocIds) ELSE doc_i]

\* C25: the list the backward walk stores agrees with the last row of the
\* table: as many entities as the row's count, of the row's total length.
C25_WalkAgreesWithTable ==
    Returned =>
        LET last == dp_array[Len(dp_array)]
            out == entities_per_document[FneDoc]
        IN /\ Len(out) = last.count
           /\ ListLength(out) = last.total_length

InTable == pc \in {"fne_dp", "fne_walk"}

\* the first k entities of the document in the order of the loop
Processed(k) == SubSeq(StableSort(input_entities[FneDoc], "stop"), 1, k)

\* the rows to compare with the optimum: all of them once the table is
\* complete, before that the row just appended
OptimumRows ==
    IF pc = "fne_dp" /\ sorted_entities = <<>> THEN 0..(Len(dp_array) - 1)
    ELSE IF pc = "fne_dp" THEN {Len(dp_array) - 1}
    ELSE {}

\* C26: while the table is built it has one row more than entities
\* processed, row 0 is (0, 0, 0, None), the rows' ends never decrease, the
\* search for the next entity stops at an index >= 0, and row k holds the
\* largest count, and the largest total length for that count, over the
\* pairwise non-overlapping subsets of the first k entities.
C26_TableInvariant ==
    InTable =>
        /\ Len(dp_array) =
               1 + Len(input_entities[FneDoc]) - Len(sorted_entities)
        /\ dp_array[1] = DpInit[1]
        /\ \A k \in 1..(Len(dp_array) - 1) :
              dp_array[k].position_end <= dp_array[k + 1].position_end
        /\ sorted_entities # <<>> =>
               BackSearch(dp_array, Len(dp_array) - 1, Head(sorted_entities).start) >= 0
        /\ \A k \in OptimumRows :
              /\ dp_array[k + 1].count = MaxCount(Processed(k))
              /\ dp_array[k + 1].total_length = MaxLength(Processed(k))

\* three entities processed, the last overlapping an earlier one, and the
\* last row copied from the row before
C26_Witness ==
    /\ pc = "fne_walk"
    /\ Len(dp_array) = 4
    /\ ~NonOverlapping(input_entities[FneDoc])
    /\ dp_array[4] = dp_array[3]
    /\ dp_array[4].count = 2

\* how often the object is in the list
Occurrences(list, oid) == Cardinality({n \in 1..Len(list) : list[n].oid = oid})

SameMultiset(a, b) ==
    \A oid \in Oids(a) \cup Oids(b) : Occurrences(a, oid) = Occurrences(b, oid)

SecondCall == call.op = "filter_nested_entities"

\* C28: filter_nested_entities applied to a dataset it has already processed
\* leaves every document's list unchanged as a multiset and issues no warning.
C28_Idempotent ==
    (Returned /\ SecondCall) =>
        /\ \A id \in DocSet :
              SameMultiset(entities_per_document[id], input_entities[id])
        /\ Len(warnings) = call.before

\* ------------------------------------------------- the writer's pending entity
InDocument == pc \in {"w_sentence", "w_token"}

\* the pending entity and the entities still to come
Queue ==
    (IF current_entity = None THEN <<>> ELSE <<current_entity>>) \o entities

\* the log entries of the document being written
DocLog == SelectSeq(log, LAMBDA r : r.doc = doc_i)

RECURSIVE SumSkipped(_)
SumSkipped(lg) == IF lg = <<>> THEN 0 ELSE Head(lg).skipped + SumSkipped(Tail(lg))

\* C27: while a document is written, the pending entity and the entities
\* still to come are the rest of the document's entities sorted by
\* (start, end) after the entities that tokens have passed; every entity
\* passed has seen a token at an offset >= its end; before the document's
\* first token the pending entity is the first sorted entity.
C27_PendingMovesForward ==
    InDocument =>
        LET sorted == StableSort(entities_per_document[DocIds[doc_i]], "start_stop")
            k == SumSkipped(DocLog)
        IN /\ k <= Len(sorted)
           /\ Queue = SubSeq(sorted, k + 1, Len(sorted))
           /\ \A j \in 1..k : \E n \in 1..Len(DocLog) :
                 DocLog[n].offset >= sorted[j].end
           /\ DocLog = <<>> =>
                 current_entity = (IF sorted = <<>> THEN None ELSE sorted[1])

\* in the second document the first of two entities has been passed; the
\* first document had an entity too
C27_Witness ==
    /\ InDocument
    /\ doc_i = 2
    /\ Len(entities_per_document[DocIds[1]]) = 1
    /\ Len(entities_per_document[DocIds[2]]) = 2
    /\ SumSkipped(DocLog) = 1
    /\ Len(entities) = 0
    /\ current_entity.start = 2

\* the log entries of one sentence of one document that the entity tagged
TaggedBy(e, d, sn) ==
    SelectSeq(log, LAMBDA r : /\ r.doc = d /\ r.sentence = sn
                              /\ r.entity = e /\ r.tag # "O")

\* C29: in every sentence the first token that lies in an entity is tagged
\* B-<type>, also when the entity began in the sentence before; an entity
\* tags at most one token of a sentence with B-, and it tags only tokens
\* whose offset lies in its span.
C29_BeginPerSentence ==
    \A n \in 1..Len(log) :
        LET e == log[n].entity
            by == TaggedBy(e, log[n].doc, log[n].sentence)
        IN log[n].tag # "O" =>
              /\ InSpan(log[n].offset, e)
              /\ by[1].tag = "B-" \o e.type
              /\ \A m \in 2..Len(by) : by[m].tag = "I-" \o e.type

\* an entity that spans two sentences tagged a token of each with B-
C29_Witness ==
    /\ Written
    /\ \E n, m \in 1..Len(log) :
          /\ log[n].sentence = 1
          /\ log[m].sentence = 2
          /\ log[n].entity = log[m].entity
          /\ log[n].tag = "B-" \o log[n].entity.type
          /\ log[m].tag = log[n].tag
          /\ log[n].written /\ log[m].written

====
